---- MODULE Spec2Model ----
(***************************************************************************)
(* DarkWorldBot: the dice-pool expression engine.                          *)
(*   libs/roller.py   roll_dice, process_willpower, resolve_dice_pool      *)
(*   libs/macro.py    validate_expr, validate_macro, sum_macro,            *)
(*                    get_character_value                                  *)
(*   cogs/character.py  CharacterCog.hunt                                  *)
(*   cogs/macro.py    Macro.create_macro, update_macro, delete_macro       *)
(* Strings are sequences of one-character strings, so that the regular     *)
(* expressions of the source are computed on characters.                   *)
(***************************************************************************)
EXTENDS Integers, Sequences, FiniteSets, TLC

VARIABLES
    rollIn,     \* arguments of the last roll_dice call and the dice drawn
    rollOut,    \* what that call returned (return_ones = True)
    resIn,      \* the expression and character of the last resolution
    resOut,     \* what sum_macro and resolve_dice_pool returned or raised
    cvIn,       \* trait name, specialization and character of the last lookup
    cvOut,      \* what get_character_value returned or raised
    valIn,      \* the text handed to validate_expr
    valOut,     \* whether validate_expr accepted it
    compIn,     \* willpower_used, the dice and the roll handed to the Willpower block
    compOut,    \* successes, ones_count and formatted after that block
    db,         \* parsed_characters: the persisted record of the character
    pc,         \* per invocation: where the hunt handler stands
    loc         \* per invocation: the handler's local variables

rollVars == <<rollIn, rollOut>>

resVars == <<resIn, resOut>>

compVars == <<compIn, compOut>>

lookVars == <<cvIn, cvOut>>

valVars == <<valIn, valOut>>

huntVars == <<db, pc, loc>>

vars == <<rollIn, rollOut, resIn, resOut, cvIn, cvOut, valIn, valOut,
          compIn, compOut, db, pc, loc>>

\* ------------------------------------------------------------------------
\* Bounds
\* ------------------------------------------------------------------------
MaxPool == 3

MaxTerms == 3

MaxHuntTerms == 2

MaxComposePool == 2

MaxExprLen == 5

\* ------------------------------------------------------------------------
\* Small helpers
\* ------------------------------------------------------------------------
Max(a, b) == IF a >= b THEN a ELSE b

Min(a, b) == IF a <= b THEN a ELSE b

RECURSIVE SeqSum(_)
SeqSum(s) == IF s = <<>> THEN 0 ELSE Head(s) + SeqSum(Tail(s))

\* ------------------------------------------------------------------------
\* Python str primitives on sequences of characters
\* ------------------------------------------------------------------------
UpperLetters == <<"A","B","C","D","E","F","G","H","I","J","K","L","M",
                  "N","O","P","Q","R","S","T","U","V","W","X","Y","Z">>

LowerLetters == <<"a","b","c","d","e","f","g","h","i","j","k","l","m",
                  "n","o","p","q","r","s","t","u","v","w","x","y","z">>

Digits == <<"0","1","2","3","4","5","6","7","8","9">>

Range(f) == {f[i] : i \in DOMAIN f}

IsAlpha(c) == c \in Range(UpperLetters) \cup Range(LowerLetters)

IsDigit(c) == c \in Range(Digits)

IsSpace(c) == c = " "

IsSign(c) == c \in {"+", "-"}

IndexIn(f, c) == CHOOSE i \in DOMAIN f : f[i] = c

LowerChar(c) == IF c \in Range(UpperLetters)
                THEN LowerLetters[IndexIn(UpperLetters, c)] ELSE c

UpperChar(c) == IF c \in Range(LowerLetters)
                THEN UpperLetters[IndexIn(LowerLetters, c)] ELSE c

\* str.lower(), str.upper()
lower(s) == [i \in 1..Len(s) |-> LowerChar(s[i])]

upper(s) == [i \in 1..Len(s) |-> UpperChar(s[i])]

\* str.strip()
RECURSIVE lstrip(_)
lstrip(s) == IF s # <<>> /\ IsSpace(Head(s)) THEN lstrip(Tail(s)) ELSE s

RECURSIVE rstrip(_)
rstrip(s) == IF s # <<>> /\ IsSpace(s[Len(s)])
             THEN rstrip(SubSeq(s, 1, Len(s) - 1)) ELSE s

strip(s) == rstrip(lstrip(s))

\* str.startswith at position i
StartsWithAt(s, i, sub) ==
    /\ i + Len(sub) - 1 <= Len(s)
    /\ SubSeq(s, i, i + Len(sub) - 1) = sub

\* sub in s
Contains(s, sub) == \E i \in 1..(Len(s) + 1) : StartsWithAt(s, i, sub)

\* str.replace(old, ""): left to right, non-overlapping
RECURSIVE remove(_, _)
remove(s, old) ==
    IF s = <<>> THEN <<>>
    ELSE IF StartsWithAt(s, 1, old)
         THEN remove(SubSeq(s, Len(old) + 1, Len(s)), old)
         ELSE <<Head(s)>> \o remove(Tail(s), old)

\* str.split(sep) for a one-character separator
RECURSIVE split(_, _)
split(s, sep) ==
    IF \A i \in 1..Len(s) : s[i] # sep THEN <<s>>
    ELSE LET i == CHOOSE k \in 1..Len(s) :
                     s[k] = sep /\ \A j \in 1..(k - 1) : s[j] # sep
         IN  <<SubSeq(s, 1, i - 1)>> \o split(SubSeq(s, i + 1, Len(s)), sep)

\* int(token) for a token of decimal digits
RECURSIVE int(_)
int(s) == IF s = <<>> THEN 0
          ELSE 10 * int(SubSeq(s, 1, Len(s) - 1))
               + (IndexIn(Digits, s[Len(s)]) - 1)

\* the longest prefix of s whose characters all satisfy P
PrefixLen(s, P(_)) ==
    CHOOSE n \in 0..Len(s) :
        /\ \A i \in 1..n : P(s[i])
        /\ n = Len(s) \/ ~P(s[n + 1])

\* Optional values (None or a value), kept apart from the value's own type
NoneVal == <<>>

Some(x) == <<x>>

IsNone(o) == o = <<>>

Get(o) == o[1]

\* ------------------------------------------------------------------------
\* libs/macro.py: TOKEN_PATTERN, validate_expr
\* ------------------------------------------------------------------------
IsNameStart(c) == IsAlpha(c) \/ c = "_"

IsNameChar(c) == IsAlpha(c) \/ IsDigit(c) \/ c = "_"

IsBracket(c) == c \in {"[", "]"}

\* ^([A-Za-z_][A-Za-z0-9_]*(\[[^\[\]]+\])?|\d+)$
TOKEN_PATTERN(t) ==
    \/ /\ t # <<>>
       /\ \A i \in 1..Len(t) : IsDigit(t[i])
    \/ /\ t # <<>>
       /\ IsNameStart(t[1])
       /\ LET n == PrefixLen(t, IsNameChar)
          IN  \/ n = Len(t)
              \/ /\ Len(t) >= n + 3
                 /\ t[n + 1] = "["
                 /\ t[Len(t)] = "]"
                 /\ \A i \in (n + 2)..(Len(t) - 1) : ~IsBracket(t[i])

\* re.split(r"([+-])", expr): the runs between operators and the operators
RECURSIVE re_split_ops(_)
re_split_ops(s) ==
    LET n == PrefixLen(s, LAMBDA c : ~IsSign(c))
    IN  IF n = Len(s) THEN <<s>>
        ELSE <<SubSeq(s, 1, n), <<s[n + 1]>>>>
             \o re_split_ops(SubSeq(s, n + 2, Len(s)))

\* tokens = [p.strip() for p in parts if p.strip()]
stripped_tokens(s) ==
    LET parts == re_split_ops(s)
        kept  == SelectSeq(parts, LAMBDA q : strip(q) # <<>>)
    IN  [i \in 1..Len(kept) |-> strip(kept[i])]

\* mutant: the test on the number of tokens is left out
validate_expr_no_parity(expr) ==
    LET e      == strip(expr)
        tokens == stripped_tokens(e)
    IN  /\ e # <<>>
        /\ tokens # <<>>
        /\ \A i \in 1..Len(tokens) :
              IF i % 2 = 1 THEN TOKEN_PATTERN(tokens[i])
              ELSE tokens[i] \in {<<"+">>, <<"-">>}

validate_expr(expr) ==
    LET e      == strip(expr)
        tokens == stripped_tokens(e)
    IN  /\ e # <<>>
        /\ tokens # <<>>
        /\ Len(tokens) % 2 = 1
        /\ \A i \in 1..Len(tokens) :
              IF i % 2 = 1 THEN TOKEN_PATTERN(tokens[i])
              ELSE tokens[i] \in {<<"+">>, <<"-">>}

\* ^[A-Za-z_][A-Za-z0-9_]*$
IsMacroName(name) ==
    /\ name # <<>>
    /\ IsNameStart(name[1])
    /\ \A i \in 1..Len(name) : IsNameChar(name[i])

\* validate_macro on the text NAME=EXPR: split at the first "="
validate_macro(macro) ==
    /\ Contains(macro, <<"=">>)
    /\ LET i    == CHOOSE k \in 1..Len(macro) :
                       macro[k] = "=" /\ \A j \in 1..(k - 1) : macro[j] # "="
           name == strip(SubSeq(macro, 1, i - 1))
           expr == strip(SubSeq(macro, i + 1, Len(macro)))
       IN  /\ name # <<>>
           /\ IsMacroName(name)
           /\ validate_expr(expr)

\* ------------------------------------------------------------------------
\* libs/macro.py: get_character_value
\* ------------------------------------------------------------------------
Ok == "ok"

\* entry.get(key, default) on an optional field
EntryGet(field, default) == IF IsNone(field) THEN default ELSE Get(field)

\* specs_list = [s.strip().lower() for s in entry_specs.split(",")]
specs_list(entry_specs) ==
    LET parts == split(entry_specs, ",")
    IN  {lower(strip(parts[i])) : i \in 1..Len(parts)}

\* check_entry: "none" is the None result, "hit" the (value, used) tuple,
\* "raise" an exception from subscripting None or calling None.lower()
check_entry(entry, trait_name_lower, spec) ==
    IF IsNone(entry)
        THEN [kind |-> "raise", exc |-> "TypeError", value |-> 0, used |-> FALSE]
    ELSE IF IsNone(Get(entry).name)
        THEN [kind |-> "raise", exc |-> "AttributeError", value |-> 0, used |-> FALSE]
    ELSE IF lower(Get(Get(entry).name)) # trait_name_lower
        THEN [kind |-> "none", exc |-> Ok, value |-> 0, used |-> FALSE]
    ELSE IF ~IsNone(spec)
        THEN IF IsNone(Get(entry).specs) \/ EntryGet(Get(entry).specs, <<>>) = <<>>
                THEN [kind |-> "none", exc |-> Ok, value |-> 0, used |-> FALSE]
             ELSE IF lower(Get(spec)) \notin specs_list(Get(Get(entry).specs))
                THEN [kind |-> "none", exc |-> Ok, value |-> 0, used |-> FALSE]
             ELSE [kind |-> "hit", exc |-> Ok,
                   value |-> EntryGet(Get(entry).value, 0), used |-> TRUE]
    ELSE [kind |-> "hit", exc |-> Ok,
          value |-> EntryGet(Get(entry).value, 0), used |-> FALSE]

RECURSIVE Flatten(_)
Flatten(ss) == IF ss = <<>> THEN <<>> ELSE Head(ss) \o Flatten(Tail(ss))

\* the entries in the order the six loops visit them
SearchOrder(char) ==
    char.attributes \o Flatten(char.abilities) \o char.disciplines
    \o char.backgrounds \o char.virtues \o char.magic_paths

RECURSIVE SearchEntries(_, _, _)
SearchEntries(entries, trait_name_lower, spec) ==
    IF entries = <<>>
        THEN [exc |-> Ok, value |-> 0, found |-> FALSE, used_spec |-> FALSE]
    ELSE LET res == check_entry(Head(entries), trait_name_lower, spec)
         IN  IF res.kind = "raise"
                THEN [exc |-> res.exc, value |-> 0, found |-> FALSE,
                      used_spec |-> FALSE]
             ELSE IF res.kind = "hit"
                THEN [exc |-> Ok, value |-> res.value, found |-> TRUE,
                      used_spec |-> res.used]
             ELSE SearchEntries(Tail(entries), trait_name_lower, spec)

get_character_value(char, trait_name, spec) ==
    SearchEntries(SearchOrder(char), lower(trait_name), spec)

\* ------------------------------------------------------------------------
\* libs/macro.py: sum_macro
\* ------------------------------------------------------------------------
\* re.findall(r"[+-]?\s*[^+-]+", macro_str)
RECURSIVE findall_tokens(_)
findall_tokens(s) ==
    IF s = <<>> THEN <<>>
    ELSE IF IsSign(s[1])
        THEN IF Len(s) >= 2 /\ ~IsSign(s[2])
             THEN LET n == PrefixLen(Tail(s), LAMBDA c : ~IsSign(c))
                  IN  <<SubSeq(s, 1, n + 1)>>
                      \o findall_tokens(SubSeq(s, n + 2, Len(s)))
             ELSE findall_tokens(Tail(s))
    ELSE LET n == PrefixLen(s, LAMBDA c : ~IsSign(c))
         IN  <<SubSeq(s, 1, n)>> \o findall_tokens(SubSeq(s, n + 1, Len(s)))

\* re.match(r"([A-Za-z\s]+)(?:\[([^\]]+)\])?", token)
IsTraitChar(c) == IsAlpha(c) \/ IsSpace(c)

trait_match(token) ==
    LET n == PrefixLen(token, IsTraitChar)
        rest == SubSeq(token, n + 1, Len(token))
        m == IF rest # <<>> /\ rest[1] = "["
             THEN PrefixLen(Tail(rest), LAMBDA c : c # "]") ELSE 0
        has_spec == /\ rest # <<>> /\ rest[1] = "["
                    /\ m >= 1
                    /\ Len(rest) >= m + 2
                    /\ rest[m + 2] = "]"
    IN  [matched |-> n >= 1,
         name    |-> SubSeq(token, 1, n),
         spec    |-> IF has_spec THEN Some(SubSeq(rest, 2, m + 1)) ELSE NoneVal]

Failure == [exc |-> Ok, ret |-> <<-1, FALSE>>]

\* the body of the for loop, from the token at the head of tokens on
RECURSIVE sum_tokens(_, _, _, _)
sum_tokens(tokens, total, used_spec, char) ==
    IF tokens = <<>> THEN [exc |-> Ok, ret |-> <<total, used_spec>>]
    ELSE
    LET stripped == strip(Head(tokens))
        sign  == IF stripped # <<>> /\ stripped[1] = "-" THEN -1 ELSE 1
        token == IF stripped # <<>> /\ IsSign(stripped[1])
                 THEN Tail(stripped) ELSE stripped
        m     == trait_match(token)
        cv    == get_character_value(char, strip(m.name), m.spec)
    IN  IF stripped = <<>>
            THEN sum_tokens(Tail(tokens), total, used_spec, char)
        ELSE IF token # <<>> /\ \A i \in 1..Len(token) : IsDigit(token[i])
            THEN sum_tokens(Tail(tokens), total + sign * int(token),
                            used_spec, char)
        ELSE IF ~m.matched THEN Failure
        ELSE IF cv.exc # Ok THEN [exc |-> cv.exc, ret |-> <<>>]
        ELSE IF ~cv.found THEN Failure
        ELSE sum_tokens(Tail(tokens), total + sign * cv.value,
                        used_spec \/ cv.used_spec, char)

sum_macro(macro_str, char) ==
    IF macro_str = <<>> THEN Failure
    ELSE sum_tokens(findall_tokens(macro_str), 0, FALSE, char)

\* ------------------------------------------------------------------------
\* libs/roller.py: roll_dice
\* ------------------------------------------------------------------------
DieFaces == 1..10

Difficulties == {0, 1, 4, 6, 8, 10, 11}

\* list.sort(key=lambda x: x[1]): stable, ascending by the second component
RECURSIVE InsertByVal(_, _)
InsertByVal(sorted, x) ==
    IF sorted = <<>> THEN <<x>>
    ELSE IF Head(sorted)[2] <= x[2]
         THEN <<Head(sorted)>> \o InsertByVal(Tail(sorted), x)
         ELSE <<x>> \o sorted

RECURSIVE SortByVal(_)
SortByVal(s) ==
    IF s = <<>> THEN <<>>
    ELSE InsertByVal(SortByVal(SubSeq(s, 1, Len(s) - 1)), s[Len(s)])

\* indexed_rolls = list(enumerate(rolls)); indexed_rolls.sort(...)
indexed_rolls(rolls) == SortByVal([i \in 1..Len(rolls) |-> <<i, rolls[i]>>])

IsSuccessDie(val, spec, difficulty) ==
    /\ val # 1
    /\ (val = 10 /\ spec) \/ val >= difficulty

SuccessWorth(val, spec, difficulty) ==
    IF val = 1 THEN 0
    ELSE IF val = 10 /\ spec THEN 2
    ELSE IF val >= difficulty THEN 1
    ELSE 0

\* successes_idx after its own sort (cancel lowest successes first)
successes_idx(rolls, spec, difficulty) ==
    SortByVal(SelectSeq(indexed_rolls(rolls),
                        LAMBDA x : IsSuccessDie(x[2], spec, difficulty)))

total_successes(rolls, spec, difficulty) ==
    SeqSum([k \in 1..Len(rolls) |-> SuccessWorth(rolls[k], spec, difficulty)])

ones_idx(rolls) == {i \in 1..Len(rolls) : rolls[i] = 1}

to_cancel(rolls, spec, difficulty) ==
    LET sx == successes_idx(rolls, spec, difficulty)
        n  == Min(Len(sx), Cardinality(ones_idx(rolls)))
    IN  {sx[k][1] : k \in 1..n}

\* mutant: the subtraction without the clamp at zero
final_suxx_unclamped(rolls, spec, difficulty) ==
    total_successes(rolls, spec, difficulty) - Cardinality(ones_idx(rolls))

final_suxx(rolls, spec, difficulty) ==
    Max(0, total_successes(rolls, spec, difficulty) - Cardinality(ones_idx(rolls)))

botch(rolls, spec, difficulty) ==
    /\ total_successes(rolls, spec, difficulty) = 0
    /\ Cardinality(ones_idx(rolls)) > 0

\* the display class of one die
DieTag(x, rolls, spec, difficulty) ==
    IF x[1] \in ones_idx(rolls) \/ x[1] \in to_cancel(rolls, spec, difficulty)
        THEN "struck"
    ELSE IF x[2] < difficulty THEN "italic"
    ELSE IF x[2] = 10 /\ spec THEN "crit"
    ELSE "normal"

Group(tag, rolls, spec, difficulty) ==
    LET ir  == indexed_rolls(rolls)
        sel == SelectSeq(ir, LAMBDA x : DieTag(x, rolls, spec, difficulty) = tag)
    IN  [k \in 1..Len(sel) |-> [tag |-> tag, val |-> sel[k][2]]]

Separator == [tag |-> "sep", val |-> 0]

\* mutant: the crits are put before the plain successes
formatted_crit_first(rolls, spec, difficulty) ==
    LET first  == Group("struck", rolls, spec, difficulty)
                  \o Group("italic", rolls, spec, difficulty)
        normal == Group("normal", rolls, spec, difficulty)
        crit   == Group("crit", rolls, spec, difficulty)
    IN  first
        \o (IF first # <<>> /\ (normal # <<>> \/ crit # <<>>)
            THEN <<Separator>> ELSE <<>>)
        \o crit \o normal

formatted(rolls, spec, difficulty) ==
    LET first  == Group("struck", rolls, spec, difficulty)
                  \o Group("italic", rolls, spec, difficulty)
        normal == Group("normal", rolls, spec, difficulty)
        crit   == Group("crit", rolls, spec, difficulty)
    IN  first
        \o (IF first # <<>> /\ (normal # <<>> \/ crit # <<>>)
            THEN <<Separator>> ELSE <<>>)
        \o normal \o crit

\* roll_dice(pool, spec, difficulty, return_ones=True) once the dice are drawn
roll_dice(rolls, spec, difficulty) ==
    [formatted  |-> formatted(rolls, spec, difficulty),
     successes  |-> final_suxx(rolls, spec, difficulty),
     botch      |-> botch(rolls, spec, difficulty),
     ones_count |-> Cardinality(ones_idx(rolls))]

\* ------------------------------------------------------------------------
\* Characters (libs/character.py: get_all_data, get_trait, get_dot_trait)
\* ------------------------------------------------------------------------
\* get_trait: {"name", "value", "specs"}
Trait(name, value, specs) ==
    Some([name |-> Some(name), value |-> Some(value), specs |-> specs])

\* get_dot_trait: {"name", "value"}
DotTrait(name, value) ==
    Some([name |-> Some(name), value |-> Some(value), specs |-> NoneVal])

\* get_magic_path: {"name", "type", "level"}
MagicPath(name, level) ==
    Some([name |-> Some(name), value |-> NoneVal, specs |-> NoneVal,
          level |-> level])

sStr == <<"S","t","r">>

sDex == <<"D","e","x">>

sMel == <<"M","e","l">>

sCel == <<"C","e","l">>

sPth == <<"P","t","h">>

sSpecs == <<"A","x",","," ","S","w">>

\* a sheet whose ability rows are all filled in
SheetFilled ==
    [attributes  |-> <<Trait(sStr, 3, NoneVal), Trait(sDex, 3, NoneVal)>>,
     abilities   |-> << <<Trait(sMel, 2, Some(sSpecs))>> >>,
     disciplines |-> <<DotTrait(sCel, 1)>>,
     backgrounds |-> <<>>,
     virtues     |-> <<>>,
     magic_paths |-> <<MagicPath(sPth, 2)>>]

\* a sheet with an empty Hobby Talents row: get_trait returned None for it
SheetBlankRow ==
    [SheetFilled EXCEPT !.abilities =
        << <<Trait(sMel, 2, Some(sSpecs))>>, <<NoneVal>> >>]

Sheets == {SheetFilled, SheetBlankRow}

MaxWillpower == 2

MaxBlood == 3

\* the parsed record of a freshly loaded sheet (Character.__init__)
NewCharacter(sheet, wp) ==
    [attributes     |-> sheet.attributes,
     abilities      |-> sheet.abilities,
     disciplines    |-> sheet.disciplines,
     backgrounds    |-> sheet.backgrounds,
     virtues        |-> sheet.virtues,
     magic_paths    |-> sheet.magic_paths,
     max_willpower  |-> MaxWillpower,
     curr_willpower |-> wp,
     max_blood      |-> MaxBlood,
     curr_blood     |-> 0,
     blood_log      |-> <<>>,
     curr_dta       |-> 0,
     macros         |-> {}]

\* ------------------------------------------------------------------------
\* Expressions drawn as inputs: terms joined by operators
\* ------------------------------------------------------------------------
TraitTerm(text, name, spec) ==
    [kind |-> "trait", text |-> text, name |-> name, spec |-> spec, lit |-> 0,
     body |-> <<>>, bodyops |-> <<>>]

NumberTerm(text, lit) ==
    [kind |-> "number", text |-> text, name |-> <<>>, spec |-> NoneVal,
     lit |-> lit, body |-> <<>>, bodyops |-> <<>>]

\* the documented names for current and maximum Willpower
PseudoTerm(text, field) ==
    [kind |-> "pseudo", text |-> text, name |-> field, spec |-> NoneVal,
     lit |-> 0, body |-> <<>>, bodyops |-> <<>>]

\* the name of a macro; body and bodyops index Terms and Ops
MacroTerm(text, body, bodyops) ==
    [kind |-> "macro", text |-> text, name |-> text, spec |-> NoneVal,
     lit |-> 0, body |-> body, bodyops |-> bodyops]

sAtk == <<"A","t","k">>

Terms ==
    <<TraitTerm(sStr, sStr, NoneVal),
      TraitTerm(<<"d","e","x">>, <<"d","e","x">>, NoneVal),
      TraitTerm(<<"M","e","l","[","S","w","]">>, sMel, Some(<<"S","w">>)),
      TraitTerm(<<"M","e","l","[","Z","z","]">>, sMel, Some(<<"Z","z">>)),
      TraitTerm(sCel, sCel, NoneVal),
      TraitTerm(<<"U","n","k">>, <<"U","n","k">>, NoneVal),
      TraitTerm(<<"S","t","r","2">>, <<"S","t","r","2">>, NoneVal),
      NumberTerm(<<"4">>, 4),
      PseudoTerm(<<"W","i","l","l","p","o","w","e","r">>, "curr_willpower"),
      PseudoTerm(<<"w","i","l","l","m","a","x">>, "max_willpower"),
      TraitTerm(sPth, sPth, NoneVal),
      MacroTerm(sAtk, <<2, 3>>, <<1>>)>>

Ops ==
    <<[text |-> <<"+">>, sign |-> 1],
      [text |-> <<"-">>, sign |-> -1],
      [text |-> <<"+"," ">>, sign |-> 1],
      [text |-> <<"+","+">>, sign |-> 1]>>

\* T0 op1 T1 op2 T2 ... as one string
RECURSIVE ExprText(_, _)
ExprText(ts, os) ==
    IF Len(ts) = 1 THEN Terms[ts[1]].text
    ELSE ExprText(SubSeq(ts, 1, Len(ts) - 1), SubSeq(os, 1, Len(os) - 1))
         \o Ops[os[Len(os)]].text \o Terms[ts[Len(ts)]].text

\* ------------------------------------------------------------------------
\* libs/roller.py: resolve_dice_pool
\* ------------------------------------------------------------------------
\* the names bound in the namespace of libs/roller.py: its imports, what
\* "from libs.macro import *" brings in, and its own definitions
roller_globals ==
    {"re", "ast", "discord", "logging", "randint", "Tuple", "List",
     "dotenv_values", "config", "logger",
     "Dict", "Union", "Optional", "TOKEN_PATTERN", "validate_expr",
     "validate_macro", "decompile_macro", "sum_macro", "get_character_value",
     "Character", "Credentials", "blood_gen", "datetime", "timedelta",
     "get_client", "gspread", "json", "sqlite3", "uuid",
     "save_character_json", "load_character_json", "list_characters_for_user",
     "roll_dice", "process_willpower", "resolve_dice_pool",
     "format_roll_expression", "build_roll_embed", "handle_botch_mention"}

\* macros: what get_character_macros(char.uuid) would read, a set of
\* <<name, expression>> pairs, one per key of the dict.  The call looks the
\* name get_character_macros up in the module namespace first.
resolve_dice_pool(roll_str, char, macros) ==
    IF "get_character_macros" \notin roller_globals
        THEN [exc |-> "NameError", ret |-> <<>>]
    ELSE IF \E m \in macros : m[1] = roll_str
        THEN sum_macro((CHOOSE m \in macros : m[1] = roll_str)[2], char)
    ELSE sum_macro(roll_str, char)

\* ------------------------------------------------------------------------
\* libs/roller.py: process_willpower
\* ------------------------------------------------------------------------
sWP == <<"+","W","P">>

\* mutant: the guard lets a character with no Willpower left spend one
process_willpower_weak_guard(roll_str, char) ==
    IF ~Contains(upper(roll_str), sWP)
        THEN [exc |-> Ok, cleaned |-> roll_str, spent |-> FALSE,
              char |-> char, saved |-> FALSE]
    ELSE IF char.curr_willpower < 0
        THEN [exc |-> "ValueError", cleaned |-> roll_str, spent |-> FALSE,
              char |-> char, saved |-> FALSE]
    ELSE [exc |-> Ok,
          cleaned |-> strip(remove(remove(remove(remove(roll_str, sWP),
                          <<"+","w","p">>), <<"+","W","p">>), <<"+","w","P">>)),
          spent |-> TRUE,
          char |-> [char EXCEPT !.curr_willpower = @ - 1],
          saved |-> TRUE]

\* mutant: the debit is made in memory but save_parsed is not called
process_willpower_unsaved(roll_str, char) ==
    IF ~Contains(upper(roll_str), sWP)
        THEN [exc |-> Ok, cleaned |-> roll_str, spent |-> FALSE,
              char |-> char, saved |-> FALSE]
    ELSE IF char.curr_willpower < 1
        THEN [exc |-> "ValueError", cleaned |-> roll_str, spent |-> FALSE,
              char |-> char, saved |-> FALSE]
    ELSE [exc |-> Ok,
          cleaned |-> strip(remove(remove(remove(remove(roll_str, sWP),
                          <<"+","w","p">>), <<"+","W","p">>), <<"+","w","P">>)),
          spent |-> TRUE,
          char |-> [char EXCEPT !.curr_willpower = @ - 1],
          saved |-> FALSE]

\* char is the record after the call; saved tells whether char.save_parsed()
\* wrote it to the database
process_willpower(roll_str, char) ==
    IF ~Contains(upper(roll_str), sWP)
        THEN [exc |-> Ok, cleaned |-> roll_str, spent |-> FALSE,
              char |-> char, saved |-> FALSE]
    ELSE IF char.curr_willpower < 1
        THEN [exc |-> "ValueError", cleaned |-> roll_str, spent |-> FALSE,
              char |-> char, saved |-> FALSE]
    ELSE [exc |-> Ok,
          cleaned |-> strip(remove(remove(remove(remove(roll_str, sWP),
                          <<"+","w","p">>), <<"+","W","p">>), <<"+","w","P">>)),
          spent |-> TRUE,
          char |-> [char EXCEPT !.curr_willpower = @ - 1],
          saved |-> TRUE]

\* ------------------------------------------------------------------------
\* cogs/character.py: the Willpower auto-success block of hunt
\* ------------------------------------------------------------------------
WillpowerEntry == [tag |-> "wp", val |-> 0]

\* mutant: the Willpower success is added even when a 1 absorbed it
apply_willpower_always_adds(willpower_used, roll) ==
    IF ~willpower_used THEN roll
    ELSE IF roll.ones_count > 0
        THEN [roll EXCEPT !.ones_count = @ - 1, !.successes = @ + 1]
    ELSE [roll EXCEPT !.successes = @ + 1,
                      !.formatted = Append(@, WillpowerEntry)]

apply_willpower(willpower_used, roll) ==
    IF ~willpower_used THEN roll
    ELSE IF roll.ones_count > 0
        THEN [roll EXCEPT !.ones_count = @ - 1]
    ELSE [roll EXCEPT !.successes = @ + 1,
                      !.formatted = Append(@, WillpowerEntry)]

\* ------------------------------------------------------------------------
\* Idle values of the variables a specification does not use
\* ------------------------------------------------------------------------
Unset == [set |-> FALSE]

RollIdle == rollIn = Unset /\ rollOut = Unset

ResIdle == resIn = Unset /\ resOut = Unset

CompIdle == compIn = Unset /\ compOut = Unset

LookIdle == cvIn = Unset /\ cvOut = Unset

ValIdle == valIn = Unset /\ valOut = Unset

HuntIdle == db = Unset /\ pc = Unset /\ loc = Unset

\* ------------------------------------------------------------------------
\* The roller on its own: draw the dice, classify them
\* ------------------------------------------------------------------------
\* mutant: a negative pool rolls as many dice as its magnitude
DrawnDice_magnitude(pool) == [1..(IF pool < 0 THEN -pool ELSE pool) -> DieFaces]

\* rolls = [randint(1, 10) for _ in range(pool)]
DrawnDice(pool) == [1..Max(pool, 0) -> DieFaces]

RollDice ==
    /\ rollOut = Unset
    /\ \E pool \in -1..MaxPool, spec \in BOOLEAN, difficulty \in Difficulties :
         \E rolls \in DrawnDice(pool) :
           /\ rollIn' = [set |-> TRUE, pool |-> pool, spec |-> spec,
                         difficulty |-> difficulty, rolls |-> rolls]
           /\ rollOut' = [set |-> TRUE,
                          ret |-> roll_dice(rolls, spec, difficulty)]
           /\ UNCHANGED <<resVars, lookVars, valVars, compVars, huntVars>>

RollInit == RollIdle /\ ResIdle /\ LookIdle /\ ValIdle /\ CompIdle /\ HuntIdle

RollNext == RollDice

SpecRoll == RollInit /\ [][RollNext]_vars

\* ------------------------------------------------------------------------
\* The resolver on its own: an expression against a character
\* ------------------------------------------------------------------------
\* the macro tables tried with an expression: the empty one, and for an
\* expression that names a macro the table that holds it
MacroTables(ts) ==
    {{}} \cup {{<<Terms[ts[i]].text,
                  ExprText(Terms[ts[i]].body, Terms[ts[i]].bodyops)>>} :
                  i \in {k \in DOMAIN ts : Terms[ts[k]].kind = "macro"}}

Resolve ==
    /\ resOut = Unset
    /\ \E sheet \in Sheets, n \in 1..MaxTerms :
         \E ts \in [1..n -> DOMAIN Terms], os \in [1..(n - 1) -> DOMAIN Ops] :
         \E macros \in MacroTables(ts) :
         \E char \in {[NewCharacter(sheet, MaxWillpower - 1)
                          EXCEPT !.macros = macros]} :
         \E text \in {ExprText(ts, os)} :
               /\ resIn' = [set |-> TRUE, char |-> char, terms |-> ts,
                            ops |-> os, text |-> text]
               /\ resOut' = [set |-> TRUE,
                             res  |-> sum_macro(text, char),
                             pool |-> resolve_dice_pool(text, char,
                                                        char.macros)]
               /\ UNCHANGED <<rollVars, lookVars, valVars, compVars, huntVars>>

ResInit == RollIdle /\ ResIdle /\ LookIdle /\ ValIdle /\ CompIdle /\ HuntIdle

ResNext == Resolve

SpecResolve == ResInit /\ [][ResNext]_vars

\* ------------------------------------------------------------------------
\* The trait lookup on its own: a name in some letter case, a character
\* ------------------------------------------------------------------------
\* a sheet on which a custom ability and a background carry the same name
SheetDup ==
    [SheetFilled EXCEPT !.backgrounds = <<DotTrait(sMel, 4)>>]

LookupSheets == Sheets \cup {SheetDup}

LookupNames == {sStr, sDex, sMel, sCel, sPth, <<"U","n","k">>}

LookupSpecs ==
    {NoneVal, Some(<<"S","w">>), Some(<<"s","W">>), Some(<<"Z","z">>)}

\* the spellings of a name that differ only in letter case
CaseVariants(name) ==
    {[i \in 1..Len(name) |->
         IF up[i] THEN UpperChar(name[i]) ELSE LowerChar(name[i])] :
     up \in [1..Len(name) -> BOOLEAN]}

Lookup ==
    /\ cvOut = Unset
    /\ \E sheet \in LookupSheets, base \in LookupNames, spec \in LookupSpecs :
         \E trait_name \in CaseVariants(base) :
         \E char \in {NewCharacter(sheet, MaxWillpower)} :
           /\ cvIn' = [set |-> TRUE, char |-> char, base |-> base,
                       trait_name |-> trait_name, spec |-> spec]
           /\ cvOut' = [set |-> TRUE,
                        ret |-> get_character_value(char, trait_name, spec)]
    /\ UNCHANGED <<rollVars, resVars, valVars, compVars, huntVars>>

LookInit == RollIdle /\ ResIdle /\ LookIdle /\ ValIdle /\ CompIdle /\ HuntIdle

LookNext == Lookup

SpecLookup == LookInit /\ [][LookNext]_vars

\* ------------------------------------------------------------------------
\* The validator on its own: any short text over the expression alphabet
\* ------------------------------------------------------------------------
ExprAlphabet == {"a", "1", "+", "-", "[", "]", " "}

Validate ==
    /\ valOut = Unset
    /\ \E n \in 0..MaxExprLen :
         \E expr \in [1..n -> ExprAlphabet] :
           /\ valIn' = [set |-> TRUE, expr |-> expr]
           /\ valOut' = [set |-> TRUE, ok |-> validate_expr(expr)]
    /\ UNCHANGED <<rollVars, resVars, lookVars, compVars, huntVars>>

ValInit == RollIdle /\ ResIdle /\ LookIdle /\ ValIdle /\ CompIdle /\ HuntIdle

ValNext == Validate

SpecValidate == ValInit /\ [][ValNext]_vars

\* ------------------------------------------------------------------------
\* cogs/character.py: CharacterCog.hunt, one invocation at a time
\* ------------------------------------------------------------------------
Procs == {"h1"}

CharacterName == "Zayd"

Names == {"Zayd", "Nobody"}

HuntDifficulties == {6}

\* the terms and operators hunt expressions are built from
HuntTermIds == {2, 3, 6, 8}

HuntOpIds == {1, 2}

\* what may follow the expression: nothing, or the marker in a letter case
Suffixes ==
    {<<>>, sWP, <<"+","w","p">>, <<"+","W","p">>, <<"+","w","P">>}

NoRoll == [formatted |-> <<>>, successes |-> 0, botch |-> FALSE,
           ones_count |-> 0]

LocIdle ==
    [cmd |-> "", user |-> "", macro_name |-> <<>>, macro_str |-> <<>>,
     amount |-> 0,
     name |-> "", hunt_str |-> <<>>, terms |-> <<>>, ops |-> <<>>,
     suffix |-> <<>>, difficulty |-> 0,
     db_before |-> Unset, char |-> Unset,
     roll_str |-> <<>>, willpower_used |-> FALSE,
     total_pool |-> 0, spec_used |-> FALSE,
     rolled |-> FALSE, rolls |-> <<>>, roll |-> NoRoll,
     successes |-> 0, ones_count |-> 0, formatted |-> <<>>,
     outcome |-> ""]

\* the command arrives with its arguments;
\* await interaction.response.defer(ephemeral=True)
HuntStart(p, name, ts, os, suffix, difficulty) ==
    /\ loc' = [loc EXCEPT ![p] =
                 [LocIdle EXCEPT !.cmd = "hunt",
                                 !.name = name,
                                 !.hunt_str = ExprText(ts, os) \o suffix,
                                 !.terms = ts, !.ops = os,
                                 !.suffix = suffix,
                                 !.difficulty = difficulty]]
    /\ pc' = [pc EXCEPT ![p] = "deferred"]
    /\ UNCHANGED <<db, rollVars, resVars, lookVars, valVars, compVars>>

HuntInvoke(p) ==
    /\ pc[p] = "idle"
    /\ \E name \in Names, n \in 1..MaxHuntTerms, suffix \in Suffixes,
          difficulty \in HuntDifficulties :
         \E ts \in [1..n -> HuntTermIds], os \in [1..(n - 1) -> HuntOpIds] :
           HuntStart(p, name, ts, os, suffix, difficulty)

\* mutant: the record comes from a cache filled when the sheet was parsed
load_by_name_cached(name) ==
    IF name = CharacterName
        THEN Some(NewCharacter(SheetFilled, MaxWillpower))
    ELSE NoneVal

\* Character.load_by_name: the row whose name matches, or None
load_by_name(name) ==
    IF name = CharacterName THEN Some(db) ELSE NoneVal

\* lines 564-584: blood gain, log entry, save_parsed
BloodGain(char, successes) ==
    LET before_blood == char.curr_blood
        new_blood    == Min(char.max_blood, char.curr_blood + successes)
        entry        == [delta |-> new_blood - before_blood,
                         before |-> before_blood, result |-> new_blood]
    IN  [char EXCEPT !.curr_blood = new_blood,
                     !.blood_log = Append(@, entry)]

\* from the load to the first await after it: the body runs without
\* suspension, so it is one step
HuntRun(p) ==
    /\ pc[p] = "deferred"
    /\ loc[p].cmd = "hunt"
    /\ LET l   == loc[p]
           row == load_by_name(l.name)
       IN  IF IsNone(row)
               THEN /\ loc' = [loc EXCEPT ![p] =
                                 [l EXCEPT !.db_before = db,
                                           !.outcome = "NotFound"]]
                    /\ db' = db
           ELSE \E pw \in {process_willpower(l.hunt_str, Get(row))} :
             IF pw.exc # Ok
               \* except ValueError as ve: not enough Willpower
               THEN /\ loc' = [loc EXCEPT ![p] =
                                 [l EXCEPT !.db_before = db, !.char = Get(row),
                                           !.outcome = "InsufficientWillpower"]]
                    /\ db' = db
             ELSE
             \E db1 \in {IF pw.saved THEN pw.char ELSE db} :
             \E r \in {resolve_dice_pool(pw.cleaned, pw.char, db1.macros)} :
             \E l1 \in {[l EXCEPT !.db_before = db, !.char = pw.char,
                                  !.roll_str = pw.cleaned,
                                  !.willpower_used = pw.spent]} :
               IF r.exc # Ok
                 \* except Exception as e
                 THEN /\ loc' = [loc EXCEPT ![p] =
                                   [l1 EXCEPT !.outcome = "Error"]]
                      /\ db' = db1
               ELSE IF Len(r.ret) # 3
                 \* total_pool, spec_used, specs_applied = <2-tuple>:
                 \* ValueError, caught by except ValueError as ve
                 THEN /\ loc' = [loc EXCEPT ![p] =
                                   [l1 EXCEPT !.outcome = "UnpackError"]]
                      /\ db' = db1
               ELSE IF r.ret[1] = -1
                 THEN /\ loc' = [loc EXCEPT ![p] =
                                   [l1 EXCEPT !.total_pool = -1,
                                              !.outcome = "UnableToRoll"]]
                      /\ db' = db1
               ELSE \E rolls \in DrawnDice(r.ret[1]) :
                  LET roll  == roll_dice(rolls, r.ret[2], l.difficulty)
                      after == apply_willpower(pw.spent, roll)
                      saved == BloodGain(pw.char, after.successes)
                  IN  /\ loc' = [loc EXCEPT ![p] =
                                   [l1 EXCEPT !.total_pool = r.ret[1],
                                              !.spec_used = r.ret[2],
                                              !.rolled = TRUE,
                                              !.rolls = rolls,
                                              !.roll = roll,
                                              !.successes = after.successes,
                                              !.ones_count = after.ones_count,
                                              !.formatted = after.formatted,
                                              !.char = saved,
                                              !.outcome = "Rolled"]]
                      /\ db' = saved
    /\ pc' = [pc EXCEPT ![p] = "replying"]
    /\ UNCHANGED <<rollVars, resVars, lookVars, valVars, compVars>>

\* await interaction.followup.send(...) / interaction.channel.send(embed),
\* after which the handler returns and its locals are gone
HuntReply(p) ==
    /\ pc[p] = "replying"
    /\ loc[p].cmd = "hunt"
    /\ pc' = [pc EXCEPT ![p] = "idle"]
    /\ loc' = [loc EXCEPT ![p] = LocIdle]
    /\ UNCHANGED <<db, rollVars, resVars, lookVars, valVars, compVars>>

\* ------------------------------------------------------------------------
\* cogs/macro.py: create_macro, update_macro, delete_macro
\* ------------------------------------------------------------------------
Owner == "owner"

Users == {"owner", "stranger"}

\* Character.load_for_user: the first character listed for the user
load_for_user(user) ==
    IF user = Owner THEN load_by_name(CharacterName) ELSE NoneVal

MacroNames == {sAtk, <<" ">>}

\* expressions offered as macro text: a resolvable one, three with the
\* Willpower marker (one of them malformed besides), a malformed one, a blank
MacroBodies ==
    {ExprText(<<2, 3>>, <<1>>),
     sStr \o sWP,
     <<"d","e","x","+","w","p">>,
     <<"S","t","r","+","+","w","P">>,
     <<"S","t","r","+","+","4">>,
     <<" ">>}

HasMacro(char, name) == \E m \in char.macros : m[1] = name

\* char.macros[name] = macro_str
StoreMacro(char, name, macro_str) ==
    [char EXCEPT !.macros =
        {m \in @ : m[1] # name} \cup {<<name, macro_str>>}]

MacroResult(outcome, char, saved) ==
    [outcome |-> outcome, char |-> char, saved |-> saved]

\* total_pool, _, specs_applied = resolve_dice_pool(macro_str, char): what
\* the call and the unpacking leave, "ok" with the total or the exception
unpack_three(r) ==
    IF r.exc # Ok THEN [exc |-> r.exc, total_pool |-> 0]
    ELSE IF Len(r.ret) # 3 THEN [exc |-> "ValueError", total_pool |-> 0]
    ELSE [exc |-> Ok, total_pool |-> r.ret[1]]

resolve_for_macro(macro_str, char) ==
    unpack_three(resolve_dice_pool(macro_str, char, char.macros))

\* create_macro from the resolution on: lines 70-102, r the resolution
create_macro_store(char, name, macro_str, r) ==
    \* except Exception as e
    IF r.exc # Ok THEN MacroResult("Error", char, FALSE)
    ELSE IF r.total_pool = -1 THEN MacroResult("Unresolvable", char, FALSE)
    ELSE IF HasMacro(char, name) THEN MacroResult("Exists", char, FALSE)
    ELSE MacroResult("Created", StoreMacro(char, name, macro_str), TRUE)

\* update_macro from the resolution on: lines 140-168, r the resolution
update_macro_store(char, name, macro_str, r) ==
    IF r.exc # Ok THEN MacroResult("Error", char, FALSE)
    ELSE IF r.total_pool = -1 THEN MacroResult("Unresolvable", char, FALSE)
    ELSE IF ~HasMacro(char, name) THEN MacroResult("NoSuchMacro", char, FALSE)
    ELSE MacroResult("Updated", StoreMacro(char, name, macro_str), TRUE)

\* mutant: the marker is looked for without upper-casing the text
create_macro_exact_marker(char, name, macro_str) ==
    IF strip(name) = <<>> \/ strip(macro_str) = <<>>
        THEN MacroResult("Empty", char, FALSE)
    ELSE IF Contains(macro_str, sWP)
        THEN MacroResult("WillpowerMarker", char, FALSE)
    ELSE IF ~validate_macro(name \o <<"=">> \o macro_str)
        THEN MacroResult("Invalid", char, FALSE)
    ELSE create_macro_store(char, name, macro_str,
                            resolve_for_macro(macro_str, char))

\* lines 51-68 and, through create_macro_store, 70-102, for a character that
\* was found
create_macro(char, name, macro_str) ==
    IF strip(name) = <<>> \/ strip(macro_str) = <<>>
        THEN MacroResult("Empty", char, FALSE)
    ELSE IF Contains(upper(macro_str), sWP)
        THEN MacroResult("WillpowerMarker", char, FALSE)
    ELSE IF ~validate_macro(name \o <<"=">> \o macro_str)
        THEN MacroResult("Invalid", char, FALSE)
    ELSE create_macro_store(char, name, macro_str,
                            resolve_for_macro(macro_str, char))

\* lines 128-138 and, through update_macro_store, 140-168, for a character
\* that was found
update_macro(char, name, macro_str) ==
    IF Contains(upper(macro_str), sWP)
        THEN MacroResult("WillpowerMarker", char, FALSE)
    ELSE IF ~validate_macro(name \o <<"=">> \o macro_str)
        THEN MacroResult("Invalid", char, FALSE)
    ELSE update_macro_store(char, name, macro_str,
                            resolve_for_macro(macro_str, char))

\* lines 234-246, for a character that was found
delete_macro(char, name) ==
    IF ~HasMacro(char, name) THEN MacroResult("NoSuchMacro", char, FALSE)
    ELSE MacroResult("Deleted",
                     [char EXCEPT !.macros = {m \in @ : m[1] # name}], TRUE)

\* a macro command from its start to the reply it awaits: no suspension in
\* between, so it is one step
MacroStep(p, cmd, user, name, macro_str, r) ==
    /\ loc' = [loc EXCEPT ![p] =
                 [LocIdle EXCEPT !.cmd = cmd, !.user = user,
                                 !.macro_name = name,
                                 !.macro_str = macro_str,
                                 !.db_before = db,
                                 !.char = r.char,
                                 !.outcome = r.outcome]]
    /\ db' = IF r.saved THEN r.char ELSE db
    /\ pc' = [pc EXCEPT ![p] = "replying"]
    /\ UNCHANGED <<rollVars, resVars, lookVars, valVars, compVars>>

MacroCreate(p) ==
    /\ pc[p] = "idle"
    /\ \E user \in Users, name \in MacroNames, macro_str \in MacroBodies :
       \E row \in {load_for_user(user)} :
       \E r \in {IF IsNone(row) THEN MacroResult("NoCharacter", Unset, FALSE)
                  ELSE create_macro(Get(row), name, macro_str)} :
         MacroStep(p, "macro_new", user, name, macro_str, r)

MacroUpdate(p) ==
    /\ pc[p] = "idle"
    /\ \E user \in Users, name \in MacroNames, macro_str \in MacroBodies :
       \E row \in {load_for_user(user)} :
       \E r \in {IF IsNone(row) THEN MacroResult("NoCharacter", Unset, FALSE)
                  ELSE update_macro(Get(row), name, macro_str)} :
         MacroStep(p, "macro_update", user, name, macro_str, r)

MacroDelete(p) ==
    /\ pc[p] = "idle"
    /\ \E user \in Users, name \in MacroNames :
       \E row \in {load_for_user(user)} :
       \E r \in {IF IsNone(row) THEN MacroResult("NoCharacter", Unset, FALSE)
                  ELSE delete_macro(Get(row), name)} :
         MacroStep(p, "macro_delete", user, name, <<>>, r)

\* await interaction.response.send_message(...), then the handler returns
MacroReply(p) ==
    /\ pc[p] = "replying"
    /\ loc[p].cmd \in {"macro_new", "macro_update", "macro_delete"}
    /\ pc' = [pc EXCEPT ![p] = "idle"]
    /\ loc' = [loc EXCEPT ![p] = LocIdle]
    /\ UNCHANGED <<db, rollVars, resVars, lookVars, valVars, compVars>>

Init ==
    /\ RollIdle /\ ResIdle /\ LookIdle /\ ValIdle /\ CompIdle
    /\ \E sheet \in Sheets : db = NewCharacter(sheet, MaxWillpower)
    /\ pc = [p \in Procs |-> "idle"]
    /\ loc = [p \in Procs |-> LocIdle]

Next ==
    \E p \in Procs :
        \/ HuntInvoke(p) \/ HuntRun(p) \/ HuntReply(p)
        \/ MacroCreate(p) \/ MacroUpdate(p) \/ MacroDelete(p)
        \/ MacroReply(p)

Spec == Init /\ [][Next]_vars

\* ------------------------------------------------------------------------
\* Two hunt invocations in flight for the same character
\* ------------------------------------------------------------------------
RaceProcs == {"h1", "h2"}

\* one-term expressions: dex, Unk
RaceTermIds == {2, 6}

RaceSuffixes == {<<>>, sWP, <<"+","w","p">>}

RaceInvoke(p) ==
    /\ pc[p] = "idle"
    /\ \E t \in RaceTermIds, suffix \in RaceSuffixes :
         HuntStart(p, CharacterName, <<t>>, <<>>, suffix, 6)

RaceInit ==
    /\ RollIdle /\ ResIdle /\ LookIdle /\ ValIdle /\ CompIdle
    /\ \E sheet \in Sheets, wp \in 1..MaxWillpower :
         db = NewCharacter(sheet, wp)
    /\ pc = [p \in RaceProcs |-> "idle"]
    /\ loc = [p \in RaceProcs |-> LocIdle]

RaceNext ==
    \E p \in RaceProcs : RaceInvoke(p) \/ HuntRun(p) \/ HuntReply(p)

SpecRace == RaceInit /\ [][RaceNext]_vars

\* ------------------------------------------------------------------------
\* cogs/character.py: CharacterCog.adjust_blood
\* ------------------------------------------------------------------------
\* entries of the blood log a run may append
MaxLog == 2

AdjustAmounts == {-1, 2, MaxBlood + 2}

\* mutant: the new pool is not clamped to 0..max_blood
adjust_blood_unclamped(char, amount) ==
    LET new_blood == char.curr_blood + amount
        entry     == [delta |-> new_blood - char.curr_blood,
                      before |-> char.curr_blood, result |-> new_blood]
    IN  [char EXCEPT !.curr_blood = new_blood,
                     !.blood_log = Append(@, entry)]

\* lines 473-488: the record after the adjustment, as save_parsed writes it
adjust_blood(char, amount) ==
    LET new_blood == Max(0, Min(char.max_blood, char.curr_blood + amount))
        entry     == [delta |-> new_blood - char.curr_blood,
                      before |-> char.curr_blood, result |-> new_blood]
    IN  [char EXCEPT !.curr_blood = new_blood,
                     !.blood_log = Append(@, entry)]

\* the command arrives; await interaction.response.defer(ephemeral=True)
AdjustInvoke(p) ==
    /\ pc[p] = "idle"
    /\ Len(db.blood_log) < MaxLog
    /\ \E name \in Names, amount \in AdjustAmounts :
         loc' = [loc EXCEPT ![p] =
                   [LocIdle EXCEPT !.cmd = "adjust", !.name = name,
                                   !.amount = amount]]
    /\ pc' = [pc EXCEPT ![p] = "deferred"]
    /\ UNCHANGED <<db, rollVars, resVars, lookVars, valVars, compVars>>

\* from the load to the followup: no suspension in between.  For a name
\* that is not in the database the constructor raises ValueError, which
\* nothing catches.
AdjustRun(p) ==
    /\ pc[p] = "deferred"
    /\ loc[p].cmd = "adjust"
    /\ LET l   == loc[p]
           row == load_by_name(l.name)
       IN  IF IsNone(row)
               THEN /\ loc' = [loc EXCEPT ![p] =
                                 [l EXCEPT !.db_before = db,
                                           !.outcome = "ValueError"]]
                    /\ db' = db
           ELSE \E char \in {adjust_blood(Get(row), l.amount)} :
                    /\ loc' = [loc EXCEPT ![p] =
                                 [l EXCEPT !.db_before = db,
                                           !.char = char,
                                           !.outcome =
                                               IF char.curr_blood = 0
                                               THEN "HungerTorpor"
                                               ELSE "Adjusted"]]
                    /\ db' = char
    /\ pc' = [pc EXCEPT ![p] = "replying"]
    /\ UNCHANGED <<rollVars, resVars, lookVars, valVars, compVars>>

\* await interaction.followup.send(...), then the handler returns
AdjustReply(p) ==
    /\ pc[p] = "replying"
    /\ loc[p].cmd = "adjust"
    /\ pc' = [pc EXCEPT ![p] = "idle"]
    /\ loc' = [loc EXCEPT ![p] = LocIdle]
    /\ UNCHANGED <<db, rollVars, resVars, lookVars, valVars, compVars>>

\* ------------------------------------------------------------------------
\* cogs/st_commands.py: ST.reset_all, for a database of one character
\* ------------------------------------------------------------------------
\* weekly resets a run may make
MaxResets == 2

\* what the Willpower row of the sheet may hold when it is read again
SheetWillpower == 1..MaxWillpower

\* Character.refetch_data: get_all_data parses the sheet again (the traits
\* as before, max_willpower from its row); the pools are not touched
refetch_data(c, sheet_willpower) ==
    [c EXCEPT !.max_willpower = sheet_willpower]

\* mutant: the pool is refilled from the blood maximum
reset_willpower_from_blood(c) ==
    [c EXCEPT !.curr_willpower = c.max_blood]

\* Character.reset_willpower
reset_willpower(c) ==
    [c EXCEPT !.curr_willpower = c.max_willpower]

\* Character.reset_temp
reset_temp(c) ==
    [c EXCEPT !.curr_willpower = c.max_willpower,
              !.curr_blood = c.max_blood]

\* await interaction.response.defer()
ResetInvoke(q) ==
    /\ pc[q] = "idle"
    /\ db.curr_dta < MaxResets
    /\ loc' = [loc EXCEPT ![q] = [LocIdle EXCEPT !.cmd = "reset"]]
    /\ pc' = [pc EXCEPT ![q] = "deferred"]
    /\ UNCHANGED <<db, rollVars, resVars, lookVars, valVars, compVars>>

\* lines 133-154: load c, add the weekly DTA, refetch_data (which saves),
\* reset_willpower; then await asyncio.to_thread(c.write_dta_log, ...)
ResetLoad(q) ==
    /\ pc[q] = "deferred"
    /\ loc[q].cmd = "reset"
    /\ \E sheet_willpower \in SheetWillpower :
       \E c \in {refetch_data([db EXCEPT !.curr_dta = @ + 1],
                              sheet_willpower)} :
         /\ db' = c
         /\ loc' = [loc EXCEPT ![q] =
                      [@ EXCEPT !.db_before = db,
                                !.char = reset_willpower(c)]]
    /\ pc' = [pc EXCEPT ![q] = "writing"]
    /\ UNCHANGED <<rollVars, resVars, lookVars, valVars, compVars>>

\* line 159: c.save_parsed() once the thread is done; the loop ends and the
\* handler awaits interaction.followup.send(message)
ResetSave(q) ==
    /\ pc[q] = "writing"
    /\ db' = loc[q].char
    /\ loc' = [loc EXCEPT ![q] = [@ EXCEPT !.outcome = "Reset"]]
    /\ pc' = [pc EXCEPT ![q] = "replying"]
    /\ UNCHANGED <<rollVars, resVars, lookVars, valVars, compVars>>

ResetReply(q) ==
    /\ pc[q] = "replying"
    /\ loc[q].cmd = "reset"
    /\ pc' = [pc EXCEPT ![q] = "idle"]
    /\ loc' = [loc EXCEPT ![q] = LocIdle]
    /\ UNCHANGED <<db, rollVars, resVars, lookVars, valVars, compVars>>

\* a player's commands and the storyteller's weekly reset, overlapping
Player == "h1"

Storyteller == "st"

ResetInit ==
    /\ RollIdle /\ ResIdle /\ LookIdle /\ ValIdle /\ CompIdle
    /\ \E sheet \in Sheets : db = NewCharacter(sheet, MaxWillpower)
    /\ pc = [p \in {Player, Storyteller} |-> "idle"]
    /\ loc = [p \in {Player, Storyteller} |-> LocIdle]

ResetNext ==
    \/ RaceInvoke(Player) \/ HuntRun(Player) \/ HuntReply(Player)
    \/ AdjustInvoke(Player) \/ AdjustRun(Player) \/ AdjustReply(Player)
    \/ ResetInvoke(Storyteller) \/ ResetLoad(Storyteller)
    \/ ResetSave(Storyteller) \/ ResetReply(Storyteller)

SpecReset == ResetInit /\ [][ResetNext]_vars

\* ------------------------------------------------------------------------
\* The Willpower block on its own, applied to what roll_dice returns
\* ------------------------------------------------------------------------
ComposeWillpower ==
    /\ compOut = Unset
    /\ \E pool \in 0..MaxComposePool, spec \in BOOLEAN,
          difficulty \in Difficulties, willpower_used \in BOOLEAN :
         \E rolls \in DrawnDice(pool) :
         \E roll \in {roll_dice(rolls, spec, difficulty)} :
           /\ compIn' = [set |-> TRUE, willpower_used |-> willpower_used,
                         rolls |-> rolls, spec |-> spec,
                         difficulty |-> difficulty, roll |-> roll]
           /\ compOut' = [set |-> TRUE,
                          ret |-> apply_willpower(willpower_used, roll)]
    /\ UNCHANGED <<rollVars, resVars, lookVars, valVars, huntVars>>

CompInit == RollIdle /\ ResIdle /\ LookIdle /\ ValIdle /\ CompIdle /\ HuntIdle

CompNext == ComposeWillpower

SpecCompose == CompInit /\ [][CompNext]_vars

\* ------------------------------------------------------------------------
\* Properties of roll_dice
\* ------------------------------------------------------------------------
DiceShowing(rolls, face) == Cardinality({i \in DOMAIN rolls : rolls[i] = face})

\* 2 for each 10 under a specialization, 1 for each other die that is not
\* a 1 and is at or above the difficulty
SuccessesBeforeCancel(rolls, spec, difficulty) ==
    (IF spec THEN 2 * DiceShowing(rolls, 10) ELSE 0)
    + Cardinality({i \in DOMAIN rolls :
                     /\ rolls[i] # 1
                     /\ rolls[i] >= difficulty
                     /\ ~(spec /\ rolls[i] = 10)})

\* C1: the success count roll_dice returns is max(0, T - onesRolled), T being
\* the successes before cancellation, and it is never negative.
C1_NetSuccesses ==
    rollOut.set =>
        LET T    == SuccessesBeforeCancel(rollIn.rolls, rollIn.spec,
                                          rollIn.difficulty)
            ones == DiceShowing(rollIn.rolls, 1)
        IN  /\ rollOut.ret.successes = (IF T - ones > 0 THEN T - ones ELSE 0)
            /\ rollOut.ret.successes >= 0

\* a specialization roll with a 10 and a 1 that keeps a success
C1_Witness ==
    /\ rollOut.set
    /\ rollIn.spec
    /\ DiceShowing(rollIn.rolls, 10) >= 1
    /\ DiceShowing(rollIn.rolls, 1) >= 1
    /\ rollOut.ret.successes >= 1

C18_EmptyPool ==
    (rollOut.set /\ rollIn.pool <= 0) =>
        /\ rollIn.rolls = <<>>
        /\ rollOut.ret.formatted = <<>>
        /\ rollOut.ret.successes = 0
        /\ rollOut.ret.ones_count = 0
        /\ ~rollOut.ret.botch

\* a roll asked for with a negative pool
C18_Witness ==
    /\ rollOut.set
    /\ rollIn.pool < 0
    /\ rollOut.ret.formatted = <<>>

\* the place of a display group in the order
GroupRank(tag) ==
    CASE tag = "struck" -> 1
      [] tag = "italic" -> 2
      [] tag = "normal" -> 3
      [] tag = "crit"   -> 4

\* the die entries of a display, the separator left out
DieEntries(f) == SelectSeq(f, LAMBDA e : e.tag # "sep")

NamedEntries(char) ==
    {Get(e) : e \in {x \in Range(SearchOrder(char)) :
                        ~IsNone(x) /\ ~IsNone(Get(x).name)}}

EntriesNamed(char, name) ==
    {e \in NamedEntries(char) : lower(Get(e.name)) = lower(name)}

HasTrait(char, name) == EntriesNamed(char, name) # {}

Rating(char, name) ==
    LET e == CHOOSE x \in EntriesNamed(char, name) : TRUE
    IN  IF "level" \in DOMAIN e THEN e.level ELSE Get(e.value)

HasSpecialization(char, name, spec) ==
    \E e \in EntriesNamed(char, name) :
        /\ ~IsNone(e.specs)
        /\ lower(spec) \in specs_list(Get(e.specs))

\* the value the specification gives a term: the literal, the rating, the
\* Willpower field, or the value of the stored macro body
RECURSIVE SignedSum(_, _, _)

TermValue(char, t) ==
    IF t.kind = "number" THEN t.lit
    ELSE IF t.kind = "pseudo" THEN char[t.name]
    ELSE IF t.kind = "macro" THEN SignedSum(char, t.body, t.bodyops)
    ELSE Rating(char, t.name)

\* sum over the terms of sign * value, the first term with sign +1
SignedSum(char, ts, os) ==
    IF Len(ts) = 1 THEN TermValue(char, Terms[ts[1]])
    ELSE SignedSum(char, SubSeq(ts, 1, Len(ts) - 1), SubSeq(os, 1, Len(os) - 1))
         + Ops[os[Len(os)]].sign * TermValue(char, Terms[ts[Len(ts)]])

MacroStored(char, t) ==
    t.kind = "macro" /\ \E m \in char.macros : m[1] = t.text

RECURSIVE AllTraitsExist(_, _)
AllTraitsExist(char, ts) ==
    \A i \in DOMAIN ts :
        LET t == Terms[ts[i]]
        IN  /\ t.kind = "trait" => HasTrait(char, t.name)
            /\ t.kind = "macro" =>
                    MacroStored(char, t) /\ AllTraitsExist(char, t.body)

SomeTraitUnknown(char, ts) ==
    \E i \in DOMAIN ts :
        Terms[ts[i]].kind = "trait" /\ ~HasTrait(char, Terms[ts[i]].name)

\* C3: an expression with a trait term that names no trait of the character
\* resolves to the failure value, wherever the term stands.
C3_UnknownTraitFailsWhole ==
    (resOut.set /\ SomeTraitUnknown(resIn.char, resIn.terms)) =>
        resOut.res = Failure

\* C4: a well-formed expression whose trait terms all exist resolves to the
\* sum over its terms of sign * value.
C4_TotalIsSignedSum ==
    (/\ resOut.set
     /\ validate_expr(resIn.text)
     /\ AllTraitsExist(resIn.char, resIn.terms)) =>
        /\ resOut.res.exc = Ok
        /\ resOut.res.ret[1] = SignedSum(resIn.char, resIn.terms, resIn.ops)

\* C10: Trait[Spec] for a character that has the trait but not the
\* specialization resolves to the trait's base value, no specialization used.
C10_SpecializationNotGating ==
    (/\ resOut.set
     /\ Len(resIn.terms) = 1
     /\ LET t == Terms[resIn.terms[1]]
        IN  /\ t.kind = "trait"
            /\ ~IsNone(t.spec)
            /\ HasTrait(resIn.char, t.name)
            /\ ~HasSpecialization(resIn.char, t.name, Get(t.spec))) =>
        /\ resOut.res.exc = Ok
        /\ resOut.res.ret = <<Rating(resIn.char, Terms[resIn.terms[1]].name),
                              FALSE>>

Categories ==
    <<"attributes", "abilities", "disciplines", "backgrounds", "virtues",
      "magic_paths">>

\* the filled-in entries of one category that carry the name, in sheet order
CategoryEntries(char, cat, name) ==
    LET all == IF cat = "abilities" THEN Flatten(char.abilities) ELSE char[cat]
    IN  SelectSeq(all, LAMBDA e : /\ ~IsNone(e)
                                  /\ ~IsNone(Get(e).name)
                                  /\ lower(Get(Get(e).name)) = lower(name))

\* the entry of the first category, in the fixed order, that has the name
FirstEntry(char, name) ==
    LET k == CHOOSE i \in DOMAIN Categories :
                 /\ CategoryEntries(char, Categories[i], name) # <<>>
                 /\ \A j \in 1..(i - 1) :
                        CategoryEntries(char, Categories[j], name) = <<>>
    IN  Get(CategoryEntries(char, Categories[k], name)[1])

EntryRating(e) == IF "level" \in DOMAIN e THEN e.level ELSE Get(e.value)

\* C12: a term that is the documented name of current or maximum Willpower
\* resolves to the character's curr_willpower or max_willpower, and the
\* resolution does not fail.
C12_WillpowerPseudoTraits ==
    (/\ resOut.set
     /\ Len(resIn.terms) = 1
     /\ Terms[resIn.terms[1]].kind = "pseudo") =>
        /\ resOut.res.exc = Ok
        /\ resOut.res.ret # <<>>
        /\ resOut.res.ret[1] = resIn.char[Terms[resIn.terms[1]].name]

\* the expression with every macro name replaced by the macro's text
RECURSIVE ExpandedText(_, _)
ExpandedText(ts, os) ==
    LET t    == Terms[ts[Len(ts)]]
        last == IF t.kind = "macro" THEN ExprText(t.body, t.bodyops)
                ELSE t.text
    IN  IF Len(ts) = 1 THEN last
        ELSE ExpandedText(SubSeq(ts, 1, Len(ts) - 1),
                          SubSeq(os, 1, Len(os) - 1))
             \o Ops[os[Len(os)]].text \o last

HasStoredMacroTerm(char, ts) ==
    \E i \in DOMAIN ts : MacroStored(char, Terms[ts[i]])

\* C13: an expression with a stored macro's name among its terms resolves,
\* and to the same result as the expression with the name replaced by the
\* macro's text.
C13_MacroExpandedBeforeTokenizing ==
    (/\ resOut.set
     /\ Len(resIn.terms) > 1
     /\ HasStoredMacroTerm(resIn.char, resIn.terms)) =>
        /\ resOut.pool.exc = Ok
        /\ resOut.pool = resolve_dice_pool(ExpandedText(resIn.terms, resIn.ops),
                                           resIn.char, resIn.char.macros)

\* C17: an expression the validator rejects resolves to the failure value,
\* never to a number.
C17_MalformedNeverResolves ==
    (resOut.set /\ ~validate_expr(resIn.text)) => resOut.res = Failure

\* the trait the name finds first is a magic path
IsMagicPath(char, name) ==
    HasTrait(char, name) /\ "level" \in DOMAIN FirstEntry(char, name)

\* C20: in a well-formed expression of numbers and magic paths of the
\* character, each magic path counts sign * its rating.
C20_MagicPathRatingCounts ==
    (/\ resOut.set
     /\ validate_expr(resIn.text)
     /\ \E i \in DOMAIN resIn.terms :
            Terms[resIn.terms[i]].kind = "trait"
     /\ \A i \in DOMAIN resIn.terms :
            LET t == Terms[resIn.terms[i]]
            IN  \/ t.kind = "number"
                \/ t.kind = "trait" /\ IsNone(t.spec)
                                    /\ IsMagicPath(resIn.char, t.name)) =>
        /\ resOut.res.exc = Ok
        /\ resOut.res.ret # <<>>
        /\ resOut.res.ret[1] = SignedSum(resIn.char, resIn.terms, resIn.ops)

\* ------------------------------------------------------------------------
\* Properties of the trait lookup
\* ------------------------------------------------------------------------
\* C11: whatever the letter case of the name typed, a trait the character
\* has is found, and the value is that of the entry of the first category in
\* the order attributes, abilities, disciplines, backgrounds, virtues, magic
\* paths that carries the name.
C11_CaseInsensitiveCategoryOrder ==
    (/\ cvOut.set
     /\ IsNone(cvIn.spec)
     /\ HasTrait(cvIn.char, cvIn.base)) =>
        /\ cvOut.ret.exc = Ok
        /\ cvOut.ret.found
        /\ cvOut.ret.value = EntryRating(FirstEntry(cvIn.char, cvIn.base))

\* ------------------------------------------------------------------------
\* Properties of the validator
\* ------------------------------------------------------------------------
IsInteger(t) == t # <<>> /\ \A i \in 1..Len(t) : t[i] \in Range(Digits)

IsIdentifier(t) ==
    /\ t # <<>>
    /\ t[1] \notin Range(Digits)
    /\ \A i \in 1..Len(t) :
          t[i] \in Range(UpperLetters) \cup Range(LowerLetters)
                   \cup Range(Digits) \cup {"_"}

\* an integer literal, or an identifier with an optional [spec]
IsTerm(t) ==
    \/ IsInteger(t)
    \/ IsIdentifier(t)
    \/ \E k \in 1..(Len(t) - 3) :
          /\ IsIdentifier(SubSeq(t, 1, k))
          /\ t[k + 1] = "[" /\ t[Len(t)] = "]"
          /\ \A i \in (k + 2)..(Len(t) - 1) : t[i] \notin {"[", "]"}

Trimmed(t) ==
    LET inner == {i \in 1..Len(t) : t[i] # " "}
    IN  IF inner = {} THEN <<>>
        ELSE SubSeq(t, CHOOSE i \in inner : \A j \in inner : i <= j,
                       CHOOSE i \in inner : \A j \in inner : i >= j)

\* term (operator term)*, blanks allowed around terms and operators
RECURSIVE Alternates(_)
Alternates(s) ==
    \/ IsTerm(Trimmed(s))
    \/ \E i \in 1..Len(s) :
          /\ s[i] \in {"+", "-"}
          /\ IsTerm(Trimmed(SubSeq(s, 1, i - 1)))
          /\ Alternates(SubSeq(s, i + 1, Len(s)))

DoubleOperator(s) ==
    \E i, j \in 1..Len(s) :
        /\ i < j
        /\ s[i] \in {"+", "-"} /\ s[j] \in {"+", "-"}
        /\ \A k \in (i + 1)..(j - 1) : s[k] = " "

LeadingOperator(s) ==
    Trimmed(s) # <<>> /\ Trimmed(s)[1] \in {"+", "-"}

TrailingOperator(s) ==
    Trimmed(s) # <<>> /\ Trimmed(s)[Len(Trimmed(s))] \in {"+", "-"}

Count(s, ch) == Cardinality({i \in 1..Len(s) : s[i] = ch})

\* some "]" has no "[" before it, or some "[" no "]" after it
UnmatchedBracket(s) ==
    \/ Count(s, "[") # Count(s, "]")
    \/ \E n \in 1..Len(s) :
          Count(SubSeq(s, 1, n), "]") > Count(SubSeq(s, 1, n), "[")

\* C16: validate_expr accepts only texts of the form term (operator term)*,
\* a term being an integer literal or an identifier with an optional [spec],
\* and rejects every text with a double, leading or trailing operator or an
\* unmatched bracket.
C16_ValidatorGrammar ==
    valOut.set =>
        /\ valOut.ok => Alternates(valIn.expr)
        /\ (\/ DoubleOperator(valIn.expr)
            \/ LeadingOperator(valIn.expr)
            \/ TrailingOperator(valIn.expr)
            \/ UnmatchedBracket(valIn.expr)) => ~valOut.ok

\* a text with two terms and a doubled operator between them was rejected
C16_Witness ==
    /\ valOut.set
    /\ ~valOut.ok
    /\ valIn.expr # <<>> /\ valIn.expr[1] = "a"
    /\ DoubleOperator(valIn.expr)
    /\ ~LeadingOperator(valIn.expr)
    /\ ~TrailingOperator(valIn.expr)
    /\ ~UnmatchedBracket(valIn.expr)

\* ------------------------------------------------------------------------
\* Properties of the hunt pipeline
\* ------------------------------------------------------------------------
\* "+WP" in any letter case somewhere in the string
HasMarker(str) ==
    \E i \in 1..(Len(str) - 2) :
        /\ str[i] = "+"
        /\ str[i + 1] \in {"W", "w"}
        /\ str[i + 2] \in {"P", "p"}

\* the handler has run to its reply for a character that was found
\* a create or update command of a user who has a character is at its reply
StoreAnswered(p) ==
    /\ pc[p] = "replying"
    /\ loc[p].cmd \in {"macro_new", "macro_update"}
    /\ loc[p].outcome # "NoCharacter"

\* C14: a create or update command whose macro text contains +WP in any
\* letter case is turned down before the text is validated or resolved (at
\* the Willpower test, or for create at the blank-argument test before it),
\* whether or not the rest of the text is well formed, and it leaves the
\* character's macro table and the persisted record as they were.
C14_WillpowerMarkerRejected ==
    \A p \in Procs :
        (StoreAnswered(p) /\ Contains(upper(loc[p].macro_str), sWP)) =>
            /\ loc[p].outcome \in {"WillpowerMarker", "Empty"}
            /\ loc[p].char.macros = loc[p].db_before.macros
            /\ db = loc[p].db_before

\* C14 witness: an update whose text is malformed and carries the marker in
\* mixed case was turned down at the Willpower test
C14_Witness ==
    \E p \in Procs :
        /\ StoreAnswered(p)
        /\ loc[p].cmd = "macro_update"
        /\ loc[p].macro_str = <<"S","t","r","+","+","w","P">>
        /\ ~validate_expr(loc[p].macro_str)
        /\ loc[p].outcome = "WillpowerMarker"

Finished(p) ==
    /\ pc[p] = "replying"
    /\ loc[p].cmd = "hunt"
    /\ loc[p].name = CharacterName

\* C5: a hunt whose expression carries +WP and whose cleaned expression fails
\* to resolve leaves current Willpower, in memory and persisted, as it was.
C5_NoDebitWhenUnresolved ==
    \A p \in Procs :
        (/\ Finished(p)
         /\ HasMarker(loc[p].hunt_str)
         /\ SomeTraitUnknown(loc[p].db_before, loc[p].terms)) =>
            /\ db.curr_willpower = loc[p].db_before.curr_willpower
            /\ loc[p].char.curr_willpower = loc[p].db_before.curr_willpower

\* C6: process_willpower lowers current Willpower by exactly 1, persists it
\* and reports willpowerSpent when the marker is present and Willpower >= 1;
\* without the marker the expression, Willpower and the record are untouched;
\* Willpower changes in no other case.
C6_WillpowerFrame ==
    \A p \in Procs :
        Finished(p) =>
            LET before == loc[p].db_before
                marker == HasMarker(loc[p].hunt_str)
            IN  /\ (marker /\ before.curr_willpower >= 1) =>
                        /\ loc[p].willpower_used
                        /\ loc[p].char.curr_willpower
                               = before.curr_willpower - 1
                        /\ db = loc[p].char
                        /\ ~HasMarker(loc[p].roll_str)
                /\ ~marker =>
                        /\ ~loc[p].willpower_used
                        /\ loc[p].roll_str = loc[p].hunt_str
                        /\ loc[p].char = before
                        /\ db = before
                /\ (db.curr_willpower # before.curr_willpower
                     \/ loc[p].char.curr_willpower # before.curr_willpower) =>
                        (marker /\ before.curr_willpower >= 1)

\* a hunt that spent a point in a lower-case spelling of the marker
C6_Witness ==
    \E p \in Procs :
        /\ Finished(p)
        /\ loc[p].suffix = <<"+","w","p">>
        /\ loc[p].willpower_used
        /\ db.curr_willpower = loc[p].db_before.curr_willpower - 1

\* C7: with the marker present and current Willpower below 1 the hunt fails
\* with the insufficient-Willpower error before any dice are rolled, and
\* Willpower, the blood pool and the persisted record are unchanged.
C7_InsufficientWillpowerAborts ==
    \A p \in Procs :
        (/\ Finished(p)
         /\ HasMarker(loc[p].hunt_str)
         /\ loc[p].db_before.curr_willpower < 1) =>
            /\ loc[p].outcome = "InsufficientWillpower"
            /\ ~loc[p].rolled
            /\ loc[p].char = loc[p].db_before
            /\ db = loc[p].db_before

C7_Witness ==
    \E p \in Procs :
        /\ Finished(p)
        /\ HasMarker(loc[p].hunt_str)
        /\ loc[p].db_before.curr_willpower = 0
        /\ loc[p].outcome = "InsufficientWillpower"
        /\ db.curr_willpower = 0

\* the expression holds a bracketed specialization the character has
SomeSpecializationMatches(char, ts) ==
    \E i \in DOMAIN ts :
        /\ Terms[ts[i]].kind = "trait"
        /\ ~IsNone(Terms[ts[i]].spec)
        /\ HasSpecialization(char, Terms[ts[i]].name, Get(Terms[ts[i]].spec))

\* C9: with Willpower >= 1 and resolvable terms followed by +WP the hunt
\* completes with a roll: the pool is the sum of the term values,
\* specializationUsed reflects a matched specialization, pool-many dice are
\* rolled and Willpower is one lower.
C9_HuntEndToEnd ==
    \A p \in Procs :
        (/\ Finished(p)
         /\ loc[p].suffix # <<>>
         /\ loc[p].db_before.curr_willpower >= 1
         /\ AllTraitsExist(loc[p].db_before, loc[p].terms)) =>
            LET pool == SignedSum(loc[p].db_before, loc[p].terms, loc[p].ops)
            IN  /\ loc[p].outcome = "Rolled"
                /\ loc[p].total_pool = pool
                /\ loc[p].spec_used
                      = SomeSpecializationMatches(loc[p].db_before, loc[p].terms)
                /\ Len(loc[p].rolls) = (IF pool > 0 THEN pool ELSE 0)
                /\ db.curr_willpower = loc[p].db_before.curr_willpower - 1

BothSpent ==
    /\ \A p \in RaceProcs :
          /\ pc[p] = "replying"
          /\ loc[p].cmd = "hunt"
          /\ loc[p].willpower_used

\* the Willpower the earlier of the two hunts found when it loaded
WillpowerAtFirstLoad ==
    Max(loc["h1"].db_before.curr_willpower, loc["h2"].db_before.curr_willpower)

\* C21, as claimed: two hunts carrying +WP that are in flight together for
\* the same character and both report willpowerSpent leave a negative
\* persisted Willpower or one that dropped by fewer than 2.
C21_ConcurrentHuntsRace ==
    BothSpent =>
        \/ db.curr_willpower < 0
        \/ WillpowerAtFirstLoad - db.curr_willpower < 2

\* C21, amended: no interleaving of two hunts at their suspension points
\* double-spends.  Persisted Willpower is never negative, every hunt that
\* reports willpowerSpent saved exactly one point less than it loaded, and
\* when both report it they loaded different values, the persisted value is
\* the lower of the two they saved and lies at least 2 below the higher of
\* the two they loaded.
C21_NoDoubleSpend ==
    /\ db.curr_willpower >= 0
    /\ \A p \in RaceProcs :
          (pc[p] = "replying" /\ loc[p].willpower_used) =>
              /\ loc[p].db_before.curr_willpower >= 1
              /\ loc[p].char.curr_willpower
                     = loc[p].db_before.curr_willpower - 1
    /\ BothSpent =>
          /\ loc["h1"].db_before.curr_willpower
                 # loc["h2"].db_before.curr_willpower
          /\ db.curr_willpower = Min(loc["h1"].char.curr_willpower,
                                     loc["h2"].char.curr_willpower)
          /\ WillpowerAtFirstLoad - db.curr_willpower >= 2

\* C21 witness: both hunts are in flight, both have spent a point
C21_Witness ==
    /\ BothSpent
    /\ \A p \in RaceProcs : HasMarker(loc[p].hunt_str)
    /\ db.curr_willpower = 0

\* the step in which the weekly reset saves the character
ResetSaves == pc[Storyteller] = "writing" /\ pc'[Storyteller] = "replying"

\* C22: whatever a player command committed between the weekly reset's load
\* of the character and the reset's save is still in the persisted record
\* after the save: the save changes neither the blood pool, nor the blood
\* log, nor the macro table.
C22_NoLostUpdate ==
    [][ResetSaves =>
           /\ db'.curr_blood = db.curr_blood
           /\ db'.blood_log = db.blood_log
           /\ db'.macros = db.macros]_vars

\* no weekly reset is between its refetch and its save
NoResetInFlight == pc[Storyteller] # "writing"

PlayerCommits ==
    /\ pc[Player] = "deferred"
    /\ pc'[Player] = "replying"
    /\ loc[Player].cmd \in {"hunt", "adjust"}

BloodInRange(char) == 0 <= char.curr_blood /\ char.curr_blood <= char.max_blood

\* C30: a hunt or adjust-blood command that finds 0 <= curr_blood <=
\* max_blood leaves it so, and each entry it appends to the blood log has
\* result = before + delta with result the pool value it persisted.
C30_BloodInRange ==
    [][(PlayerCommits /\ BloodInRange(db)) =>
           /\ BloodInRange(db')
           /\ \/ db'.blood_log = db.blood_log
              \/ /\ Len(db'.blood_log) = Len(db.blood_log) + 1
                 /\ SubSeq(db'.blood_log, 1, Len(db.blood_log)) = db.blood_log
                 /\ LET e == db'.blood_log[Len(db'.blood_log)]
                    IN  /\ e.before = db.curr_blood
                        /\ e.result = e.before + e.delta
                        /\ e.result = db'.curr_blood]_vars

\* C30 witness: an adjustment above the maximum was clamped to it and logged
C30_Witness ==
    /\ pc[Player] = "replying"
    /\ loc[Player].cmd = "adjust"
    /\ loc[Player].outcome = "Adjusted"
    /\ loc[Player].db_before.curr_blood + loc[Player].amount > db.max_blood
    /\ db.curr_blood = db.max_blood
    /\ Len(db.blood_log) = Len(loc[Player].db_before.blood_log) + 1

\* ------------------------------------------------------------------------
\* The struck dice against the returned count
\* ------------------------------------------------------------------------
\* the successes one displayed die carries: 2 for a crit 10, 1 for any other
\* die at or above the difficulty
CarriedBy(e, spec, difficulty) ==
    IF e.val = 1 THEN 0
    ELSE IF e.val = 10 /\ spec THEN 2
    ELSE IF e.val >= difficulty THEN 1
    ELSE 0

\* the successes carried by the dice of a display that are not struck
UnstruckSuccesses(f, spec, difficulty) ==
    LET d == SelectSeq(DieEntries(f), LAMBDA e : e.tag # "struck")
    IN  SeqSum([k \in 1..Len(d) |-> CarriedBy(d[k], spec, difficulty)])

\* C23: in every roll_dice result the struck dice are the 1s plus the
\* successes they cancel, and the successes carried by the dice left
\* un-struck add up to the returned net success count.
C23_StruckDiceMatchMath ==
    rollOut.set =>
        LET f      == rollOut.ret.formatted
            d      == DieEntries(f)
            struck == SelectSeq(d, LAMBDA e : e.tag = "struck")
        IN  /\ \A k \in 1..Len(struck) :
                  \/ struck[k].val = 1
                  \/ CarriedBy(struck[k], rollIn.spec, rollIn.difficulty) > 0
            /\ Cardinality({k \in 1..Len(struck) : struck[k].val = 1})
                   = rollOut.ret.ones_count
            /\ UnstruckSuccesses(f, rollIn.spec, rollIn.difficulty)
                   = rollOut.ret.successes

\* ------------------------------------------------------------------------
\* What a Willpower spend buys, and the botch a hunt announces
\* ------------------------------------------------------------------------
\* C24: with Willpower spent, either no 1 was rolled and the final success
\* count is the roller's count plus 1, or one rolled 1 is canceled: the final
\* success count is max(0, T - (onesRolled - 1)), T and onesRolled being the
\* roller's success total before cancellation and its count of 1s.
C24_WillpowerBuysItsEffect ==
    (compOut.set /\ compIn.willpower_used) =>
        LET T    == total_successes(compIn.rolls, compIn.spec,
                                    compIn.difficulty)
            ones == compIn.roll.ones_count
        IN  IF ones = 0
                THEN compOut.ret.successes = compIn.roll.successes + 1
                ELSE compOut.ret.successes = Max(0, T - (ones - 1))

\* C26: after the Willpower block a botch is reported only if the final
\* success count is 0 and the final count of 1s is greater than 0.
C26_BotchAfterWillpower ==
    (compOut.set /\ compOut.ret.botch) =>
        /\ compOut.ret.successes = 0
        /\ compOut.ret.ones_count > 0

\* ------------------------------------------------------------------------
\* The failure test of the callers
\* ------------------------------------------------------------------------
\* if total_pool == -1: reply "Unable to roll this pool" and return; a raised
\* exception ends the command in its except block
treated_as_failed(r) == r.exc # Ok \/ r.ret[1] = -1

\* C25: a well-formed expression whose terms all resolve, and whose signed
\* total the resolver returned, is treated by the callers as resolved,
\* whatever that total is.
C25_FailureNotConfusedWithTotal ==
    (/\ resOut.set
     /\ validate_expr(resIn.text)
     /\ AllTraitsExist(resIn.char, resIn.terms)
     /\ resOut.res.exc = Ok
     /\ resOut.res.ret[1] = SignedSum(resIn.char, resIn.terms, resIn.ops)) =>
        ~treated_as_failed(resOut.res)

\* ------------------------------------------------------------------------
\* The trait lookup on sheets with blank rows
\* ------------------------------------------------------------------------
\* C28: get_character_value never raises: on every sheet the parser can
\* produce, blank (None) rows included, it returns a (value, found,
\* used_spec) triple, and a name present in no category yields
\* (0, False, False).
C28_LookupNeverRaises ==
    cvOut.set =>
        /\ cvOut.ret.exc = Ok
        /\ ~HasTrait(cvIn.char, cvIn.base) =>
              /\ cvOut.ret.value = 0
              /\ ~cvOut.ret.found
              /\ ~cvOut.ret.used_spec

====
